---- MODULE Spec2Model ----
(***************************************************************************)
(* Kube Credential: the issuance service (POST/GET /api/credentials) and   *)
(* the verification service (POST /api/verifications), with the two       *)
(* SQLite tables they own and the HTTP lookup between them.                *)
(*                                                                         *)
(* Values.  An instant is a natural number (the clock).  A date value is a *)
(* pair <<form, t>>: "iso" is the text Date.prototype.toISOString gives    *)
(* for instant t, "alt" is another ISO 8601 spelling of the same instant   *)
(* (no milliseconds, an explicit offset), "num" is the text SQLite keeps   *)
(* for a REAL bound into a TEXT column, "Date" is a JavaScript Date        *)
(* object, "bad" is text that is no date, "absent" is undefined.           *)
(* A SHA-256 digest is modelled collision free: the tuple of what was      *)
(* hashed.                                                                 *)
(***************************************************************************)
EXTENDS Integers, Sequences, FiniteSets, TLC

VARIABLES clock, credentials, verifications, uuidIssuance, uuidVerification,
          ireq, vreq, getResp, nIssued, nVerified,
          readResp, signed, verified, env

(* a credential object handed to CryptoUtils directly, and the answer of *)
(* verifyCredentialSignature for it                                      *)
unit == <<signed, verified>>

vars == <<clock, credentials, verifications, uuidIssuance, uuidVerification,
          ireq, vreq, getResp, nIssued, nVerified, readResp, unit, env>>

----------------------------------------------------------------------------
(* Bounds of the exploration *)

MaxTime == 2
MaxIssueRequests == 3
MaxVerifiedIssues == 1
MaxVerifyRequests == 2
MaxStoreIssues == 2
MaxStoreVerifies == 1
MaxInterleavedVerifies == 3
NumIssueHandlers == 2
NumVerifyHandlers == 2

(* 365 * 24 * 60 * 60 * 1000 ms, in clock units *)
DefaultValidity == 1

IssueProcs == 1..NumIssueHandlers
VerProcs == 1..NumVerifyHandlers
Times == 0..(MaxTime + DefaultValidity)

----------------------------------------------------------------------------
(* Process-wide configuration *)

Issuer == "Kube Credential Authority"
JWT_SECRET == "default-secret"
OtherSecret == "attacker-secret"
IssuanceWorkerId == "worker-1"
VerificationWorkerId == "worker-2"

(* env[service] is process.env.WORKER_ID of that service's process; Unset *)
(* is an undefined (or empty) variable                                   *)
Unset == ""
RandomWorkers == {"worker-7", "worker-8"}

(* the values of process.env.WORKER_ID || `worker-${Math.floor(       *)
(* Math.random() * 1000)}` at one evaluation                          *)
WorkerIds(service) ==
    IF env[service] # Unset THEN {env[service]} ELSE RandomWorkers

----------------------------------------------------------------------------
(* Dates and their conversions *)

Absent == <<"absent", 0>>
BadDate == <<"bad", 0>>
Iso(t) == <<"iso", t>>
Alt(t) == <<"alt", t>>
Num(t) == <<"num", t>>
DateObj(t) == <<"Date", t>>

Form(d) == d[1]
Instant(d) == d[2]

(* Joi's ISO 8601 test on a string *)
isIsoDate(d) == Form(d) \in {"iso", "alt"}

(* Date.prototype.toISOString / toJSON, and JSON.stringify of a field *)
toISOString(d) == Iso(Instant(d))
ToJSON(d) == IF Form(d) = "Date" THEN toISOString(d) ELSE d

(* node-sqlite3 binds a string as TEXT and a Date as a REAL (its epoch     *)
(* milliseconds); the column has TEXT affinity, so the REAL is kept as its *)
(* text form and read back as that text.                                   *)
SqliteBind(d) == IF Form(d) = "Date" THEN Num(Instant(d)) ELSE d

----------------------------------------------------------------------------
(* CryptoUtils *)

CanonicalFields == {"id", "holder_name", "issuer", "issued_date",
                    "credential_type", "expiry_date", "worker_id"}

(* as generateCredentialSignature, with worker_id left out of the digest *)
generateCredentialSignature_NoWorkerId(c) ==
    <<c.id, c.holder_name, c.issuer, ToJSON(c.issued_date), c.credential_type,
      ToJSON(c.expiry_date), "", JWT_SECRET>>

(* as generateCredentialSignature, with issuer left out of the digest *)
generateCredentialSignature_NoIssuer(c) ==
    <<c.id, c.holder_name, "", ToJSON(c.issued_date), c.credential_type,
      ToJSON(c.expiry_date), c.worker_id, JWT_SECRET>>

generateCredentialSignature(c) ==
    <<c.id, c.holder_name, c.issuer, ToJSON(c.issued_date), c.credential_type,
      ToJSON(c.expiry_date), c.worker_id, JWT_SECRET>>

(* the digest somebody without JWT_SECRET computes over the same fields *)
SignWith(c, secret) ==
    <<c.id, c.holder_name, c.issuer, ToJSON(c.issued_date), c.credential_type,
      ToJSON(c.expiry_date), c.worker_id, secret>>

InvalidSignature == <<"invalid-signature">>

verifyCredentialSignature(c) ==
    LET expectedSignature == generateCredentialSignature(c)
    IN  expectedSignature = c.signature

----------------------------------------------------------------------------
(* Issuance service: request validation *)

HolderNames == {"Alice", "Bob"}
BadHolderName == "J"
CredentialTypes == {"badge", "license"}
BadCredentialType == "invalid_type"

(* as credentialValidationSchema, without .min('now') on expiry_date *)
credentialValidationSchema_error_NoMin(body, now) ==
    \/ body.holder_name \notin HolderNames
    \/ body.credential_type \notin CredentialTypes
    \/ /\ body.expiry_date # Absent
       /\ ~isIsoDate(body.expiry_date)

credentialValidationSchema_error(body, now) ==
    \/ body.holder_name \notin HolderNames
    \/ body.credential_type \notin CredentialTypes
    \/ /\ body.expiry_date # Absent
       /\ \/ ~isIsoDate(body.expiry_date)
          \/ Instant(body.expiry_date) < now

(* Joi.date() converts the ISO string to a Date object *)
credentialValidationSchema_value(body) ==
    [holder_name |-> body.holder_name,
     credential_type |-> body.credential_type,
     expiry_date |-> IF body.expiry_date = Absent THEN Absent
                     ELSE DateObj(Instant(body.expiry_date))]

(* the request bodies clients send: well-formed ones (an expiry_date that *)
(* is absent, far away, or already past once the clock has moved), and    *)
(* one body for each rule of the schema                                   *)
IssueBodies ==
    [holder_name : HolderNames, credential_type : {"badge"},
     expiry_date : {Absent, Iso(MaxTime), Iso(0)}]
    \cup {[holder_name |-> BadHolderName, credential_type |-> "badge",
           expiry_date |-> Absent],
          [holder_name |-> "Alice", credential_type |-> BadCredentialType,
           expiry_date |-> Absent],
          [holder_name |-> "Alice", credential_type |-> "badge",
           expiry_date |-> BadDate]}

----------------------------------------------------------------------------
(* CredentialModel *)

Rows(table) == {table[i] : i \in 1..Len(table)}

findById(id) ==
    {c \in Rows(credentials) : c.id = id}

(* the rows the SELECT matches; database.get returns one of them *)
findByHolderAndType(holderName, credentialType) ==
    {c \in Rows(credentials) :
        c.holder_name = holderName /\ c.credential_type = credentialType}

(* what Date.now() on line 16 can give after new Date() on line 12 gave *)
(* now: the same instant, or a later one                                *)
LaterReads(now) == {t \in {now, now + 1} : t <= MaxTime}

(* the object create() builds and returns; now is the clock read of line *)
(* 12, workerId the value of line 13, later the clock read of line 16    *)
NewCredential(request, id, now, workerId, later) ==
    LET expiryDate == IF request.expiry_date # Absent THEN request.expiry_date
                      ELSE Iso(later + DefaultValidity)
        credentialData == [id |-> id,
                           holder_name |-> request.holder_name,
                           issuer |-> Issuer,
                           issued_date |-> Iso(now),
                           credential_type |-> request.credential_type,
                           expiry_date |-> expiryDate,
                           worker_id |-> workerId]
    IN  [id |-> credentialData.id,
         holder_name |-> credentialData.holder_name,
         issuer |-> credentialData.issuer,
         issued_date |-> credentialData.issued_date,
         credential_type |-> credentialData.credential_type,
         expiry_date |-> credentialData.expiry_date,
         worker_id |-> credentialData.worker_id,
         signature |-> generateCredentialSignature(credentialData),
         created_at |-> Iso(now),
         updated_at |-> Iso(now)]

(* the row the INSERT writes for that object *)
InsertedRow(c) ==
    [c EXCEPT !.expiry_date = SqliteBind(c.expiry_date)]

(* res.json of a credential object *)
CredentialJSON(c) ==
    [c EXCEPT !.issued_date = ToJSON(c.issued_date),
              !.expiry_date = ToJSON(c.expiry_date)]

----------------------------------------------------------------------------
(* Issuance service: GET /api/credentials/:id *)

(* CredentialController.getCredential: the response for an id, given whether *)
(* the SELECT succeeds                                                       *)
getCredentialResponse(id, dbOk) ==
    IF ~dbOk THEN [code |-> 500]
    ELSE IF findById(id) = {} THEN [code |-> 404]
    ELSE LET credential == CHOOSE c \in findById(id) : TRUE
         IN  [code |-> 200,
              data |-> [id |-> credential.id,
                        holder_name |-> credential.holder_name,
                        issuer |-> credential.issuer,
                        issued_date |-> credential.issued_date,
                        credential_type |-> credential.credential_type,
                        expiry_date |-> credential.expiry_date,
                        worker_id |-> credential.worker_id,
                        signature |-> credential.signature,
                        created_at |-> credential.created_at,
                        updated_at |-> credential.updated_at,
                        is_valid |-> verifyCredentialSignature(credential)]]

----------------------------------------------------------------------------
(* Verification service: request validation *)

(* uuidv4 returns 1, 2, ...; 0 is a well-formed uuid it never returned *)
UnknownUuids == {0}
isUuid(id) == id >= 0

(* Joi.string().isoDate() with convert on: the ISO string is rewritten to *)
(* its toISOString form                                                   *)
coerceIsoDate(d) == toISOString(d)

credentialSchema_error(c) ==
    \/ ~isUuid(c.id)
    \/ c.holder_name = BadHolderName
    \/ ~isIsoDate(c.issued_date)
    \/ c.credential_type \notin CredentialTypes
    \/ ~isIsoDate(c.expiry_date)
    \/ ~isIsoDate(c.created_at)
    \/ ~isIsoDate(c.updated_at)

verificationRequestSchema_error(body) ==
    \/ "credential" \notin DOMAIN body
    \/ credentialSchema_error(body.credential)

verificationRequestSchema_value(body) ==
    LET c == body.credential
    IN  [c EXCEPT !.issued_date = coerceIsoDate(c.issued_date),
                  !.expiry_date = coerceIsoDate(c.expiry_date),
                  !.created_at = coerceIsoDate(c.created_at),
                  !.updated_at = coerceIsoDate(c.updated_at)]

----------------------------------------------------------------------------
(* VerificationModel *)

(* as compareCredentials, comparing the id only *)
compareCredentials_IdOnly(credential1, credential2) ==
    credential1.id = credential2.id

(* as compareCredentials, comparing created_at and updated_at as well *)
compareCredentials_WithMetadata(credential1, credential2) ==
    /\ credential1.id = credential2.id
    /\ credential1.holder_name = credential2.holder_name
    /\ credential1.issuer = credential2.issuer
    /\ credential1.issued_date = credential2.issued_date
    /\ credential1.credential_type = credential2.credential_type
    /\ credential1.expiry_date = credential2.expiry_date
    /\ credential1.signature = credential2.signature
    /\ credential1.created_at = credential2.created_at
    /\ credential1.updated_at = credential2.updated_at

(* as compareCredentials, leaving the signature out of the comparison *)
compareCredentials_NoSignature(credential1, credential2) ==
    /\ credential1.id = credential2.id
    /\ credential1.holder_name = credential2.holder_name
    /\ credential1.issuer = credential2.issuer
    /\ credential1.issued_date = credential2.issued_date
    /\ credential1.credential_type = credential2.credential_type
    /\ credential1.expiry_date = credential2.expiry_date

compareCredentials(credential1, credential2) ==
    /\ credential1.id = credential2.id
    /\ credential1.holder_name = credential2.holder_name
    /\ credential1.issuer = credential2.issuer
    /\ credential1.issued_date = credential2.issued_date
    /\ credential1.credential_type = credential2.credential_type
    /\ credential1.expiry_date = credential2.expiry_date
    /\ credential1.signature = credential2.signature

(* as clientResult, with every failure answered null *)
clientResult_FailureIsNull(response) ==
    IF response.code = 200 THEN "credential" ELSE "null"

(* as clientResult, with a 404 rethrown like any other failure *)
clientResult_404Throws(response) ==
    IF response.code = 200 THEN "credential" ELSE "throw"

(* IssuanceServiceClient.getCredential on a response: "null", "throw", or *)
(* the credential in the body                                            *)
clientResult(response) ==
    IF response.code = 200 THEN "credential"
    ELSE IF response.code = 404 THEN "null"
    ELSE "throw"

(* the VerificationResult verifyCredential builds (lines 280-292) *)
VerificationRecord(id, credential, now, workerId, status, isValid, isExpired, issuerWorkerId, issuedDate) ==
    [id |-> id,
     credential_id |-> credential.id,
     is_valid |-> isValid,
     is_expired |-> isExpired,
     verification_status |-> status,
     verified_by |-> workerId,
     verified_at |-> Iso(now),
     issuer_worker_id |-> issuerWorkerId,
     issued_date |-> issuedDate,
     created_at |-> Iso(now)]

(* as afterLookup, with isExpired assigned before the fields are compared *)
afterLookup_ExpiryAssignedEarly(id, credential, now, workerId, response, today) ==
    IF clientResult(response) = "throw"
    THEN VerificationRecord(id, credential, now, workerId, "invalid", FALSE, FALSE,
                            "", Absent)
    ELSE IF clientResult(response) = "null"
    THEN VerificationRecord(id, credential, now, workerId, "not_found", FALSE, FALSE,
                            "", Absent)
    ELSE LET issuedCredential == response.data
             fieldsMatch == compareCredentials(credential, issuedCredential)
             isExpired == Instant(credential.expiry_date) < today
         IN  IF ~fieldsMatch
             THEN VerificationRecord(id, credential, now, workerId, "invalid", FALSE,
                                     isExpired, "", Absent)
             ELSE IF isExpired
             THEN VerificationRecord(id, credential, now, workerId, "expired", FALSE,
                                     TRUE, issuedCredential.worker_id,
                                     issuedCredential.issued_date)
             ELSE VerificationRecord(id, credential, now, workerId, "valid", TRUE,
                                     FALSE, issuedCredential.worker_id,
                                     issuedCredential.issued_date)

(* as afterLookup, with the expiry test before the field comparison *)
afterLookup_ExpiryFirst(id, credential, now, workerId, response, today) ==
    IF clientResult(response) = "throw"
    THEN VerificationRecord(id, credential, now, workerId, "invalid", FALSE, FALSE,
                            "", Absent)
    ELSE IF clientResult(response) = "null"
    THEN VerificationRecord(id, credential, now, workerId, "not_found", FALSE, FALSE,
                            "", Absent)
    ELSE LET issuedCredential == response.data
         IN  IF Instant(credential.expiry_date) < today
             THEN VerificationRecord(id, credential, now, workerId, "expired", FALSE,
                                     TRUE, issuedCredential.worker_id,
                                     issuedCredential.issued_date)
             ELSE IF ~compareCredentials(credential, issuedCredential)
             THEN VerificationRecord(id, credential, now, workerId, "invalid", FALSE,
                                     FALSE, "", Absent)
             ELSE VerificationRecord(id, credential, now, workerId, "valid", TRUE,
                                     FALSE, issuedCredential.worker_id,
                                     issuedCredential.issued_date)

(* as afterLookup, with a credential expired from its expiry instant on *)
afterLookup_ExpiredAtExpiry(id, credential, now, workerId, response, today) ==
    IF clientResult(response) = "throw"
    THEN VerificationRecord(id, credential, now, workerId, "invalid", FALSE, FALSE,
                            "", Absent)
    ELSE IF clientResult(response) = "null"
    THEN VerificationRecord(id, credential, now, workerId, "not_found", FALSE, FALSE,
                            "", Absent)
    ELSE LET issuedCredential == response.data
         IN  IF ~compareCredentials(credential, issuedCredential)
             THEN VerificationRecord(id, credential, now, workerId, "invalid", FALSE,
                                     FALSE, "", Absent)
             ELSE IF Instant(credential.expiry_date) <= today
             THEN VerificationRecord(id, credential, now, workerId, "expired", FALSE,
                                     TRUE, issuedCredential.worker_id,
                                     issuedCredential.issued_date)
             ELSE VerificationRecord(id, credential, now, workerId, "valid", TRUE,
                                     FALSE, issuedCredential.worker_id,
                                     issuedCredential.issued_date)

(* as afterLookup, with issuerWorkerId and issuedDate taken from the *)
(* looked-up record before the fields are compared                 *)
afterLookup_IssuerAssignedEarly(id, credential, now, workerId, response, today) ==
    IF clientResult(response) = "throw"
    THEN VerificationRecord(id, credential, now, workerId, "invalid", FALSE, FALSE,
                            "", Absent)
    ELSE IF clientResult(response) = "null"
    THEN VerificationRecord(id, credential, now, workerId, "not_found", FALSE, FALSE,
                            "", Absent)
    ELSE LET issuedCredential == response.data
             fieldsMatch == compareCredentials(credential, issuedCredential)
             isExpired == Instant(credential.expiry_date) < today
         IN  IF ~fieldsMatch
             THEN VerificationRecord(id, credential, now, workerId, "invalid", FALSE,
                                     FALSE, issuedCredential.worker_id,
                                     issuedCredential.issued_date)
             ELSE IF isExpired
             THEN VerificationRecord(id, credential, now, workerId, "expired", FALSE,
                                     TRUE, issuedCredential.worker_id,
                                     issuedCredential.issued_date)
             ELSE VerificationRecord(id, credential, now, workerId, "valid", TRUE,
                                     FALSE, issuedCredential.worker_id,
                                     issuedCredential.issued_date)

(* the part of verifyCredential after the lookup has answered *)
afterLookup(id, credential, now, workerId, response, today) ==
    IF clientResult(response) = "throw"
    THEN VerificationRecord(id, credential, now, workerId, "invalid", FALSE, FALSE,
                            "", Absent)
    ELSE IF clientResult(response) = "null"
    THEN VerificationRecord(id, credential, now, workerId, "not_found", FALSE, FALSE,
                            "", Absent)
    ELSE LET issuedCredential == response.data
             fieldsMatch == compareCredentials(credential, issuedCredential)
             isExpired == Instant(credential.expiry_date) < today
         IN  IF ~fieldsMatch
             THEN VerificationRecord(id, credential, now, workerId, "invalid", FALSE,
                                     FALSE, "", Absent)
             ELSE IF isExpired
             THEN VerificationRecord(id, credential, now, workerId, "expired", FALSE,
                                     TRUE, issuedCredential.worker_id,
                                     issuedCredential.issued_date)
             ELSE VerificationRecord(id, credential, now, workerId, "valid", TRUE,
                                     FALSE, issuedCredential.worker_id,
                                     issuedCredential.issued_date)

----------------------------------------------------------------------------
(* What a client can put in a verification request *)

(* the credential of the 201 response that created a row *)
AsIssued(row) ==
    IF Form(row.expiry_date) = "num"
    THEN [row EXCEPT !.expiry_date = Iso(Instant(row.expiry_date))]
    ELSE row

(* a credential nobody issued, signed by somebody who knows JWT_SECRET *)
SelfSigned(t) ==
    LET data == [id |-> CHOOSE u \in UnknownUuids : TRUE,
                 holder_name |-> "Alice",
                 issuer |-> Issuer,
                 issued_date |-> Iso(0),
                 credential_type |-> "badge",
                 expiry_date |-> Iso(t),
                 worker_id |-> IssuanceWorkerId]
    IN  [id |-> data.id, holder_name |-> data.holder_name,
         issuer |-> data.issuer, issued_date |-> data.issued_date,
         credential_type |-> data.credential_type,
         expiry_date |-> data.expiry_date, worker_id |-> data.worker_id,
         signature |-> SignWith(data, JWT_SECRET),
         created_at |-> Iso(0), updated_at |-> Iso(0)]

BaseCredentials ==
    Rows(credentials) \cup {AsIssued(r) : r \in Rows(credentials)}
        \cup {SelfSigned(MaxTime)}

OtherDates(d) ==
    {Alt(Instant(d)), Iso(Instant(d) + 1), BadDate}

OtherHolders(h) == (HolderNames \ {h}) \cup {BadHolderName}

(* the values a client may write into one field of credential c *)
FieldValues(c, f) ==
    CASE f = "id" -> (1..Len(credentials)) \cup UnknownUuids \cup {-1}
      [] f = "holder_name" -> OtherHolders(c.holder_name)
      [] f = "issuer" -> {"Other Authority"}
      [] f = "issued_date" -> OtherDates(c.issued_date)
      [] f = "credential_type" -> {"license", BadCredentialType}
      [] f = "expiry_date" -> OtherDates(c.expiry_date)
      [] f = "worker_id" -> {"worker-9"}
      [] f = "signature" -> {InvalidSignature, SignWith(c, OtherSecret)}
      [] f = "created_at" -> {Iso(Instant(c.created_at) + 1)}
      [] f = "updated_at" -> {Alt(Instant(c.updated_at)), BadDate}

AllFields == CanonicalFields \cup {"signature", "created_at", "updated_at"}

Resign(c, how) ==
    IF how = "keep" THEN c
    ELSE [c EXCEPT !.signature = SignWith(c, how)]

(* a known credential, at most one field rewritten, possibly signed again *)
VerifyCredentials ==
    {Resign([c EXCEPT ![f] = v], how) :
        <<c, f, v, how>> \in
           {<<c, f, v, how>> \in
               UNION {{<<c, f, v, how>> :
                          v \in FieldValues(c, f) \cup {c[f]},
                          how \in {"keep", JWT_SECRET}} :
                      c \in BaseCredentials, f \in AllFields} : TRUE}}

VerifyBodies ==
    {[credential |-> c] : c \in VerifyCredentials} \cup {[holder_name |-> "Alice"]}

----------------------------------------------------------------------------
(* Handler states *)

NoBody == [none |-> TRUE]
NoResp == [code |-> 0]
NoRead == [op |-> "none", code |-> 0]
(* statements and storeFailed record what the request did with the *)
(* credentials table: how many statements it ran, whether one failed *)
(* workerId is the controller's const workerId                     *)
IdleIssue == [pc |-> "idle", body |-> NoBody, credential |-> NoBody,
              resp |-> NoResp, statements |-> 0, storeFailed |-> FALSE,
              workerId |-> Unset]

FailedToIssue == [code |-> 500, message |-> "Failed to issue credential"]
(* workerId is the controller's const workerId, modelWorkerId the one of *)
(* VerificationModel.verifyCredential                                   *)
IdleVerify == [pc |-> "idle", body |-> NoBody, now |-> 0, calls |-> 0,
               response |-> NoResp, today |-> 0, verification |-> NoBody,
               resp |-> NoResp, workerId |-> Unset, modelWorkerId |-> Unset]

Init ==
    /\ clock = 0
    /\ credentials = <<>>
    /\ verifications = <<>>
    /\ uuidIssuance = 1
    /\ uuidVerification = 1
    /\ ireq = [p \in IssueProcs |-> IdleIssue]
    /\ vreq = [p \in VerProcs |-> IdleVerify]
    /\ getResp = NoResp
    /\ nIssued = 0
    /\ nVerified = 0
    /\ readResp = NoRead
    /\ signed = NoBody
    /\ verified = "none"
    /\ env = [issuance |-> IssuanceWorkerId, verification |-> VerificationWorkerId]

(* as Tick, for a system clock that may also be set back *)
Tick_SetBack ==
    /\ \E t \in {clock - 1, clock + 1} :
          /\ t \in 0..MaxTime
          /\ clock' = t
    /\ UNCHANGED <<env, readResp, unit, credentials, verifications, uuidIssuance, uuidVerification,
                   ireq, vreq, getResp, nIssued, nVerified>>

(* time passes *)
Tick ==
    /\ clock < MaxTime
    /\ clock' = clock + 1
    /\ UNCHANGED <<env, readResp, unit, credentials, verifications, uuidIssuance, uuidVerification,
                   ireq, vreq, getResp, nIssued, nVerified>>

----------------------------------------------------------------------------
(* POST /api/credentials *)

(* CredentialController.issueCredential up to the INSERT that create() *)
(* awaits: validation, the duplicate SELECT, the new credential         *)
IssueCredential(p, body, dbOk) ==
    /\ ireq[p].pc \in {"idle", "done"}
    /\ nIssued' = nIssued + 1
    /\ \E workerId \in WorkerIds("issuance") :
       IF credentialValidationSchema_error(body, clock)
       THEN /\ ireq' = [ireq EXCEPT ![p] =
                   [IdleIssue EXCEPT !.workerId = workerId, !.pc = "done", !.body = body,
                                     !.resp = [code |-> 400]]]
            /\ UNCHANGED <<uuidIssuance, clock>>
       ELSE LET credentialRequest == credentialValidationSchema_value(body)
                existing == findByHolderAndType(credentialRequest.holder_name,
                                                credentialRequest.credential_type)
            IN  IF ~dbOk
                THEN /\ ireq' = [ireq EXCEPT ![p] =
                            [IdleIssue EXCEPT !.workerId = workerId, !.pc = "done", !.body = body,
                                              !.statements = 1,
                                              !.storeFailed = TRUE,
                                              !.resp = FailedToIssue]]
                     /\ UNCHANGED <<uuidIssuance, clock>>
                ELSE IF existing # {}
                THEN /\ \E existingCredential \in existing :
                          ireq' = [ireq EXCEPT ![p] =
                            [IdleIssue EXCEPT !.workerId = workerId, !.pc = "done", !.body = body,
                               !.statements = 1,
                               !.resp = [code |-> 409,
                                         data |-> [existing_credential_id |->
                                                      existingCredential.id,
                                                   issued_date |->
                                                      existingCredential.issued_date,
                                                   issued_by |->
                                                      existingCredential.worker_id]]]]
                     /\ UNCHANGED <<uuidIssuance, clock>>
                ELSE /\ \E createWorkerId \in WorkerIds("issuance"),
                           later \in IF credentialRequest.expiry_date # Absent
                                     THEN {clock} ELSE LaterReads(clock) :
                          /\ ireq' = [ireq EXCEPT ![p] =
                               [IdleIssue EXCEPT !.workerId = workerId, !.pc = "inserting", !.body = body,
                                  !.statements = 1,
                                  !.credential =
                                      NewCredential(credentialRequest,
                                                    uuidIssuance, clock,
                                                    createWorkerId, later)]]
                          /\ clock' = later
                     /\ uuidIssuance' = uuidIssuance + 1
    /\ UNCHANGED <<env, readResp, unit, credentials, verifications, uuidVerification, vreq,
                   getResp, nVerified>>

(* as IssueInsert, over a table with a UNIQUE (holder_name, credential_type) *)
(* constraint whose violation is answered 409                              *)
IssueInsert_UniquePair(p, dbOk) ==
    /\ ireq[p].pc = "inserting"
    /\ IF dbOk /\ findByHolderAndType(ireq[p].credential.holder_name,
                                      ireq[p].credential.credential_type) = {}
       THEN /\ credentials' = Append(credentials, InsertedRow(ireq[p].credential))
            /\ ireq' = [ireq EXCEPT ![p].pc = "done",
                          ![p].statements = 2,
                          ![p].resp = [code |-> 201, worker_id |-> ireq[p].workerId,
                                       message |-> <<"Credential issued by",
                                                     ireq[p].workerId>>,
                                       data |-> CredentialJSON(ireq[p].credential)]]
       ELSE /\ ireq' = [ireq EXCEPT ![p].pc = "done",
                          ![p].statements = 2,
                          ![p].storeFailed = ~dbOk,
                          ![p].resp = IF dbOk THEN [code |-> 409]
                                      ELSE FailedToIssue]
            /\ UNCHANGED credentials
    /\ UNCHANGED <<env, readResp, unit, clock, verifications, uuidIssuance, uuidVerification, vreq,
                   getResp, nIssued, nVerified>>

(* as IssueInsert, with INSERT OR REPLACE over the (holder_name, *)
(* credential_type) pair                                         *)
IssueInsert_OrReplace(p, dbOk) ==
    /\ ireq[p].pc = "inserting"
    /\ IF dbOk
       THEN /\ credentials' =
                  LET Others(row) ==
                         ~(/\ row.holder_name = ireq[p].credential.holder_name
                           /\ row.credential_type =
                                 ireq[p].credential.credential_type)
                  IN  Append(SelectSeq(credentials, Others),
                             InsertedRow(ireq[p].credential))
            /\ ireq' = [ireq EXCEPT ![p].pc = "done",
                          ![p].statements = 2,
                          ![p].resp = [code |-> 201, worker_id |-> ireq[p].workerId,
                                       message |-> <<"Credential issued by",
                                                     ireq[p].workerId>>,
                                       data |-> CredentialJSON(ireq[p].credential)]]
       ELSE /\ ireq' = [ireq EXCEPT ![p].pc = "done",
                                    ![p].statements = 2,
                                    ![p].storeFailed = TRUE,
                                    ![p].resp = FailedToIssue]
            /\ UNCHANGED credentials
    /\ UNCHANGED <<env, readResp, unit, clock, verifications, uuidIssuance, uuidVerification, vreq,
                   getResp, nIssued, nVerified>>

(* as IssueInsert, with a failed INSERT tried once more (the second *)
(* attempt succeeds)                                               *)
IssueInsert_RetriesOnce(p, dbOk) ==
    /\ ireq[p].pc = "inserting"
    /\ credentials' = Append(credentials, InsertedRow(ireq[p].credential))
    /\ ireq' = [ireq EXCEPT ![p].pc = "done",
                  ![p].statements = IF dbOk THEN 2 ELSE 3,
                  ![p].storeFailed = ~dbOk,
                  ![p].resp = [code |-> 201, worker_id |-> ireq[p].workerId,
                                       message |-> <<"Credential issued by",
                                                     ireq[p].workerId>>,
                               data |-> CredentialJSON(ireq[p].credential)]]
    /\ UNCHANGED <<env, readResp, unit, clock, verifications, uuidIssuance, uuidVerification, vreq,
                   getResp, nIssued, nVerified>>

(* the INSERT of create() runs, and the 201 (or the 500) is sent *)
IssueInsert(p, dbOk) ==
    /\ ireq[p].pc = "inserting"
    /\ IF dbOk
       THEN /\ credentials' = Append(credentials, InsertedRow(ireq[p].credential))
            /\ ireq' = [ireq EXCEPT ![p].pc = "done",
                          ![p].statements = 2,
                          ![p].resp = [code |-> 201, worker_id |-> ireq[p].workerId,
                                       message |-> <<"Credential issued by",
                                                     ireq[p].workerId>>,
                                       data |-> CredentialJSON(ireq[p].credential)]]
       ELSE /\ ireq' = [ireq EXCEPT ![p].pc = "done",
                                    ![p].statements = 2,
                                    ![p].storeFailed = TRUE,
                                    ![p].resp = FailedToIssue]
            /\ UNCHANGED credentials
    /\ UNCHANGED <<env, readResp, unit, clock, verifications, uuidIssuance, uuidVerification, vreq,
                   getResp, nIssued, nVerified>>

(* GET /api/credentials/:id from a client *)
GetCredential(id, dbOk) ==
    /\ getResp' = getCredentialResponse(id, dbOk)
    /\ UNCHANGED <<env, readResp, unit, clock, credentials, verifications, uuidIssuance,
                   uuidVerification, ireq, vreq, nIssued, nVerified>>

----------------------------------------------------------------------------
(* POST /api/verifications *)

(* as VerifyCredential, with the lookup sent before the signature is *)
(* checked                                                           *)
VerifyCredential_LookupFirst(p, body) ==
    /\ vreq[p].pc \in {"idle", "done"}
    /\ nVerified' = nVerified + 1
    /\ \E workerId \in WorkerIds("verification") :
       IF verificationRequestSchema_error(body)
       THEN /\ vreq' = [vreq EXCEPT ![p] =
                   [IdleVerify EXCEPT !.workerId = workerId, !.pc = "done", !.body = body,
                                      !.resp = [code |-> 400]]]
            /\ UNCHANGED uuidVerification
       ELSE LET credential == verificationRequestSchema_value(body)
            IN  \E modelWorkerId \in WorkerIds("verification") :
                IF ~verifyCredentialSignature(credential)
                THEN /\ vreq' = [vreq EXCEPT ![p] =
                            [IdleVerify EXCEPT !.workerId = workerId,
                               !.modelWorkerId = modelWorkerId,
                               !.pc = "saving", !.body = body,
                               !.now = clock, !.calls = 1,
                               !.verification =
                                  VerificationRecord(uuidVerification, credential,
                                      clock, modelWorkerId, "signature_mismatch", FALSE, FALSE,
                                      "", Absent)]]
                     /\ uuidVerification' = uuidVerification + 1
                ELSE /\ vreq' = [vreq EXCEPT ![p] =
                            [IdleVerify EXCEPT !.workerId = workerId,
                               !.modelWorkerId = modelWorkerId,
                               !.pc = "lookup", !.body = body,
                                               !.now = clock, !.calls = 1]]
                     /\ UNCHANGED uuidVerification
    /\ UNCHANGED <<env, readResp, unit, clock, credentials, verifications, uuidIssuance, ireq,
                   getResp, nIssued>>

(* VerificationController.verifyCredential up to the lookup that        *)
(* VerificationModel.verifyCredential awaits (or, when the signature is *)
(* wrong, up to the INSERT it awaits)                                   *)
VerifyCredential(p, body) ==
    /\ vreq[p].pc \in {"idle", "done"}
    /\ nVerified' = nVerified + 1
    /\ \E workerId \in WorkerIds("verification") :
       IF verificationRequestSchema_error(body)
       THEN /\ vreq' = [vreq EXCEPT ![p] =
                   [IdleVerify EXCEPT !.workerId = workerId, !.pc = "done", !.body = body,
                                      !.resp = [code |-> 400]]]
            /\ UNCHANGED uuidVerification
       ELSE LET credential == verificationRequestSchema_value(body)
                signatureValid == verifyCredentialSignature(credential)
            IN  \E modelWorkerId \in WorkerIds("verification") :
                IF ~signatureValid
                THEN /\ vreq' = [vreq EXCEPT ![p] =
                            [IdleVerify EXCEPT !.workerId = workerId,
                               !.modelWorkerId = modelWorkerId,
                               !.pc = "saving", !.body = body,
                               !.now = clock,
                               !.verification =
                                  VerificationRecord(uuidVerification, credential,
                                      clock, modelWorkerId, "signature_mismatch", FALSE, FALSE,
                                      "", Absent)]]
                     /\ uuidVerification' = uuidVerification + 1
                ELSE /\ vreq' = [vreq EXCEPT ![p] =
                            [IdleVerify EXCEPT !.workerId = workerId,
                               !.modelWorkerId = modelWorkerId,
                               !.pc = "lookup", !.body = body,
                                               !.now = clock, !.calls = 1]]
                     /\ UNCHANGED uuidVerification
    /\ UNCHANGED <<env, readResp, unit, clock, credentials, verifications, uuidIssuance, ireq,
                   getResp, nIssued>>

(* as VerifyLookup, with a lookup that got no answer propagated to the *)
(* controller's catch block                                            *)
VerifyLookup_NoAnswerPropagates(p, reached, dbOk) ==
    /\ vreq[p].pc = "lookup"
    /\ LET credential == verificationRequestSchema_value(vreq[p].body)
           response == IF reached
                       THEN getCredentialResponse(credential.id, dbOk)
                       ELSE [code |-> 0]
       IN  IF reached
           THEN /\ vreq' = [vreq EXCEPT ![p].pc = "saving",
                               ![p].response = response,
                               ![p].today = clock,
                               ![p].verification =
                                   afterLookup(uuidVerification, credential,
                                               vreq[p].now,
                                               vreq[p].modelWorkerId,
                                               response, clock)]
                /\ uuidVerification' = uuidVerification + 1
           ELSE /\ vreq' = [vreq EXCEPT ![p].pc = "done",
                               ![p].response = response,
                               ![p].today = clock,
                               ![p].resp = [code |-> 500]]
                /\ UNCHANGED uuidVerification
    /\ UNCHANGED <<env, readResp, unit, clock, credentials, verifications, uuidIssuance, ireq,
                   getResp, nIssued, nVerified>>

(* the issuance service answers the lookup (reached = FALSE: no answer, a  *)
(* timeout or a network error), and verifyCredential runs on to its INSERT *)
VerifyLookup(p, reached, dbOk) ==
    /\ vreq[p].pc = "lookup"
    /\ LET credential == verificationRequestSchema_value(vreq[p].body)
           response == IF reached
                       THEN getCredentialResponse(credential.id, dbOk)
                       ELSE [code |-> 0]
       IN  vreq' = [vreq EXCEPT ![p].pc = "saving",
                       ![p].response = response,
                       ![p].today = clock,
                       ![p].verification =
                           afterLookup(uuidVerification, credential, vreq[p].now,
                                       vreq[p].modelWorkerId, response, clock)]
    /\ uuidVerification' = uuidVerification + 1
    /\ UNCHANGED <<env, readResp, unit, clock, credentials, verifications, uuidIssuance, ireq,
                   getResp, nIssued, nVerified>>

(* as VerifySave, answering 404 for a credential that was not found *)
VerifySave_NotFoundIs404(p, dbOk) ==
    /\ vreq[p].pc = "saving"
    /\ IF dbOk
       THEN /\ verifications' = Append(verifications, vreq[p].verification)
            /\ vreq' = [vreq EXCEPT ![p].pc = "done",
                          ![p].resp =
                             [code |-> IF vreq[p].verification.verification_status
                                            = "not_found" THEN 404 ELSE 200,
                              data |-> vreq[p].verification,
                              worker_id |-> vreq[p].workerId,
                              message |-> <<"Credential verification completed by",
                                            vreq[p].workerId>>]]
       ELSE /\ vreq' = [vreq EXCEPT ![p].pc = "done",
                                    ![p].resp = [code |-> 500]]
            /\ UNCHANGED verifications
    /\ UNCHANGED <<env, readResp, unit, clock, credentials, uuidIssuance, uuidVerification, ireq,
                   getResp, nIssued, nVerified>>

(* as VerifySave, also stamping updated_at of the verified credential in *)
(* the credentials table                                                *)
VerifySave_TouchesCredential(p, dbOk) ==
    /\ vreq[p].pc = "saving"
    /\ IF dbOk
       THEN /\ verifications' = Append(verifications, vreq[p].verification)
            /\ credentials' =
                  [i \in 1..Len(credentials) |->
                      IF credentials[i].id = vreq[p].verification.credential_id
                      THEN [credentials[i] EXCEPT
                               !.updated_at = Iso(vreq[p].now + 1)]
                      ELSE credentials[i]]
            /\ vreq' = [vreq EXCEPT ![p].pc = "done",
                          ![p].resp = [code |-> 200,
                                       data |-> vreq[p].verification,
                              worker_id |-> vreq[p].workerId,
                              message |-> <<"Credential verification completed by",
                                            vreq[p].workerId>>]]
       ELSE /\ vreq' = [vreq EXCEPT ![p].pc = "done",
                                    ![p].resp = [code |-> 500]]
            /\ UNCHANGED <<verifications, credentials>>
    /\ UNCHANGED <<env, readResp, unit, clock, uuidIssuance, uuidVerification, ireq,
                   getResp, nIssued, nVerified>>

(* as VerifySave, keeping a record of the lookups that answered only *)
VerifySave_AnsweredOnly(p, dbOk) ==
    /\ vreq[p].pc = "saving"
    /\ IF dbOk
       THEN /\ verifications' =
                  IF vreq[p].calls = 1 /\ vreq[p].response.code \notin {200, 404}
                  THEN verifications
                  ELSE Append(verifications, vreq[p].verification)
            /\ vreq' = [vreq EXCEPT ![p].pc = "done",
                          ![p].resp = [code |-> 200,
                                       data |-> vreq[p].verification,
                              worker_id |-> vreq[p].workerId,
                              message |-> <<"Credential verification completed by",
                                            vreq[p].workerId>>]]
       ELSE /\ vreq' = [vreq EXCEPT ![p].pc = "done",
                                    ![p].resp = [code |-> 500]]
            /\ UNCHANGED verifications
    /\ UNCHANGED <<env, readResp, unit, clock, credentials, uuidIssuance, uuidVerification, ireq,
                   getResp, nIssued, nVerified>>

(* as VerifySave, keeping only the latest record of a credential id *)
VerifySave_LatestPerCredential(p, dbOk) ==
    /\ vreq[p].pc = "saving"
    /\ IF dbOk
       THEN /\ verifications' =
                  LET Others(v) ==
                         v.credential_id # vreq[p].verification.credential_id
                  IN  Append(SelectSeq(verifications, Others),
                             vreq[p].verification)
            /\ vreq' = [vreq EXCEPT ![p].pc = "done",
                          ![p].resp = [code |-> 200,
                                       data |-> vreq[p].verification,
                              worker_id |-> vreq[p].workerId,
                              message |-> <<"Credential verification completed by",
                                            vreq[p].workerId>>]]
       ELSE /\ vreq' = [vreq EXCEPT ![p].pc = "done",
                                    ![p].resp = [code |-> 500]]
            /\ UNCHANGED verifications
    /\ UNCHANGED <<env, readResp, unit, clock, credentials, uuidIssuance, uuidVerification, ireq,
                   getResp, nIssued, nVerified>>

(* as VerifySave, with the VerificationResult kept in one place shared by *)
(* all handlers: the record saved and returned is the one built last      *)
VerifySave_SharedResult(p, dbOk) ==
    /\ vreq[p].pc = "saving"
    /\ LET saving == {q \in VerProcs : vreq[q].pc = "saving"}
           last == CHOOSE q \in saving :
                      \A r \in saving :
                         vreq[r].verification.id <= vreq[q].verification.id
       IN  IF dbOk
           THEN /\ verifications' = Append(verifications, vreq[last].verification)
                /\ vreq' = [vreq EXCEPT ![p].pc = "done",
                              ![p].resp = [code |-> 200,
                                           data |-> vreq[last].verification,
                              worker_id |-> vreq[p].workerId,
                              message |-> <<"Credential verification completed by",
                                            vreq[p].workerId>>]]
           ELSE /\ vreq' = [vreq EXCEPT ![p].pc = "done",
                                        ![p].resp = [code |-> 500]]
                /\ UNCHANGED verifications
    /\ UNCHANGED <<env, readResp, unit, clock, credentials, uuidIssuance, uuidVerification, ireq,
                   getResp, nIssued, nVerified>>

(* saveVerification, and the controller's 200 (or 500) *)
VerifySave(p, dbOk) ==
    /\ vreq[p].pc = "saving"
    /\ IF dbOk
       THEN /\ verifications' = Append(verifications, vreq[p].verification)
            /\ vreq' = [vreq EXCEPT ![p].pc = "done",
                          ![p].resp = [code |-> 200,
                                       data |-> vreq[p].verification,
                              worker_id |-> vreq[p].workerId,
                              message |-> <<"Credential verification completed by",
                                            vreq[p].workerId>>]]
       ELSE /\ vreq' = [vreq EXCEPT ![p].pc = "done",
                                    ![p].resp = [code |-> 500]]
            /\ UNCHANGED verifications
    /\ UNCHANGED <<env, readResp, unit, clock, credentials, uuidIssuance, uuidVerification, ireq,
                   getResp, nIssued, nVerified>>

----------------------------------------------------------------------------
(* Read-only endpoints *)

Pages == {1, 2}
Limits == {1, 10}

Min(a, b) == IF a < b THEN a ELSE b

(* the orders in which a SELECT ... ORDER BY created_at DESC may return *)
(* the rows of a table (rows with equal created_at in any order)       *)
OrderedByCreatedAtDesc(table) ==
    LET n == Len(table)
        perms == {f \in [1..n -> 1..n] : \A i, j \in 1..n : i # j => f[i] # f[j]}
    IN  {[i \in 1..n |-> table[f[i]]] : f \in
            {g \in perms : \A i, j \in 1..n :
                i < j => Instant(table[g[i]].created_at)
                             >= Instant(table[g[j]].created_at)}}

(* LIMIT limit OFFSET offset *)
LimitOffset(rows, limit, offset) ==
    SubSeq(rows, offset + 1, Min(offset + limit, Len(rows)))

CredentialModel_findAll(limit, offset) ==
    {LimitOffset(rows, limit, offset) : rows \in OrderedByCreatedAtDesc(credentials)}

CredentialModel_count == Len(credentials)

(* Math.ceil(total / limit) *)
CeilDiv(total, limit) == (total + limit - 1) \div limit

(* GET /api/credentials?page=&limit= : CredentialController.getAllCredentials *)
ListCredentials(page, limit, dbOk) ==
    /\ \E found \in CredentialModel_findAll(limit, (page - 1) * limit) :
          readResp' =
             IF dbOk
             THEN [op |-> "getAllCredentials", code |-> 200,
                   data |-> [credentials |-> found,
                             pagination |->
                                [page |-> page, limit |-> limit,
                                 total |-> CredentialModel_count,
                                 pages |-> CeilDiv(CredentialModel_count, limit)]]]
             ELSE [op |-> "getAllCredentials", code |-> 500]
    /\ UNCHANGED <<env, clock, credentials, verifications, uuidIssuance,
                   uuidVerification, ireq, vreq, getResp, nIssued, nVerified,
                   unit>>

(* the row saveVerification writes (is_valid ? 1 : 0), and the object the *)
(* finders rebuild from a row (Boolean(result.is_valid))                 *)
DatabaseVerification(v) ==
    [v EXCEPT !.is_valid = IF v.is_valid THEN 1 ELSE 0,
              !.is_expired = IF v.is_expired THEN 1 ELSE 0]

FromDatabaseVerification(row) ==
    [row EXCEPT !.is_valid = (row.is_valid # 0),
                !.is_expired = (row.is_expired # 0)]

(* the verifications table as the rows SQLite holds *)
VerificationRows ==
    [i \in 1..Len(verifications) |-> DatabaseVerification(verifications[i])]

VerificationModel_findById(id) ==
    {FromDatabaseVerification(VerificationRows[i]) :
        i \in {j \in 1..Len(verifications) : verifications[j].id = id}}

VerificationModel_findByCredentialId(credentialId) ==
    LET Matches(row) == row.credential_id = credentialId
    IN  {[i \in 1..Len(rows) |-> FromDatabaseVerification(rows[i])] :
            rows \in OrderedByCreatedAtDesc(SelectSeq(VerificationRows, Matches))}

VerificationModel_findAll(limit, offset) ==
    {[i \in 1..Len(page) |-> FromDatabaseVerification(page[i])] :
        page \in {LimitOffset(rows, limit, offset) :
                     rows \in OrderedByCreatedAtDesc(VerificationRows)}}

VerificationModel_count == Len(verifications)

(* GET /api/verifications/:id *)
GetVerification(id, dbOk) ==
    /\ readResp' =
          IF ~dbOk THEN [op |-> "getVerification", id |-> id, code |-> 500]
          ELSE IF VerificationModel_findById(id) = {}
          THEN [op |-> "getVerification", id |-> id, code |-> 404]
          ELSE [op |-> "getVerification", id |-> id, code |-> 200,
                data |-> CHOOSE v \in VerificationModel_findById(id) : TRUE]
    /\ UNCHANGED <<env, clock, credentials, verifications, uuidIssuance,
                   uuidVerification, ireq, vreq, getResp, nIssued, nVerified,
                   unit>>

(* GET /api/verifications/credential/:credentialId *)
GetVerificationsByCredentialId(credentialId, dbOk) ==
    /\ \E found \in VerificationModel_findByCredentialId(credentialId) :
          readResp' =
             IF dbOk
             THEN [op |-> "getVerificationsByCredentialId", code |-> 200,
                   data |-> [credential_id |-> credentialId,
                             verifications |-> found,
                             count |-> Len(found)]]
             ELSE [op |-> "getVerificationsByCredentialId", code |-> 500]
    /\ UNCHANGED <<env, clock, credentials, verifications, uuidIssuance,
                   uuidVerification, ireq, vreq, getResp, nIssued, nVerified,
                   unit>>

(* GET /api/verifications?page=&limit= *)
GetAllVerifications(page, limit, dbOk) ==
    /\ \E found \in VerificationModel_findAll(limit, (page - 1) * limit) :
          readResp' =
             IF dbOk
             THEN [op |-> "getAllVerifications", code |-> 200,
                   data |-> [verifications |-> found,
                             pagination |->
                                [page |-> page, limit |-> limit,
                                 total |-> VerificationModel_count,
                                 pages |-> CeilDiv(VerificationModel_count, limit)]]]
             ELSE [op |-> "getAllVerifications", code |-> 500]
    /\ UNCHANGED <<env, clock, credentials, verifications, uuidIssuance,
                   uuidVerification, ireq, vreq, getResp, nIssued, nVerified,
                   unit>>

(* GET /health of the issuance service: CredentialController.healthCheck *)
CredentialController_healthCheck(dbOk) ==
    IF dbOk
    THEN [code |-> 200, success |-> TRUE,
          data |-> [status |-> "healthy", database |-> "connected"]]
    ELSE [code |-> 503, success |-> FALSE,
          data |-> [status |-> "unhealthy", database |-> "disconnected"]]

(* IssuanceServiceClient.healthCheck: axios rejects an answer outside 2xx *)
issuanceClient_healthCheck(reached, issuanceDbOk) ==
    IF ~reached THEN FALSE
    ELSE LET response == CredentialController_healthCheck(issuanceDbOk)
         IN  IF response.code = 200 THEN response.success = TRUE ELSE FALSE

(* as HealthCheck, unhealthy when the issuance service is *)
HealthCheck_IssuanceDownIs503(dbOk, reached, issuanceDbOk) ==
    /\ LET issuanceServiceHealthy == issuanceClient_healthCheck(reached, issuanceDbOk)
       IN  readResp' =
              IF dbOk /\ issuanceServiceHealthy
              THEN [op |-> "healthCheck", code |-> 200, success |-> TRUE,
                    data |-> [status |-> "healthy", database |-> "connected",
                              issuance_service |-> "reachable"],
                    met |-> [database |-> dbOk, reached |-> reached,
                             issuanceDatabase |-> issuanceDbOk]]
              ELSE [op |-> "healthCheck", code |-> 503, success |-> FALSE,
                    data |-> [status |-> "unhealthy",
                              database |-> IF dbOk THEN "connected"
                                           ELSE "disconnected",
                              issuance_service |-> IF dbOk THEN "unreachable"
                                                   ELSE "unknown"],
                    met |-> [database |-> dbOk, reached |-> reached,
                             issuanceDatabase |-> issuanceDbOk]]
    /\ UNCHANGED <<env, clock, credentials, verifications, uuidIssuance,
                   uuidVerification, ireq, vreq, getResp, nIssued, nVerified,
                   unit>>

(* GET /health of the verification service.  met is no part of the answer: *)
(* it keeps what the request met (its own database answering and, when it  *)
(* got that far, the issuance service answering and the issuance service's *)
(* database answering).                                                    *)
HealthCheck(dbOk, reached, issuanceDbOk) ==
    /\ LET issuanceServiceHealthy == issuanceClient_healthCheck(reached, issuanceDbOk)
       IN  readResp' =
              IF dbOk
              THEN [op |-> "healthCheck", code |-> 200, success |-> TRUE,
                    data |-> [status |-> "healthy", database |-> "connected",
                              issuance_service |->
                                 IF issuanceServiceHealthy THEN "reachable"
                                 ELSE "unreachable"],
                    met |-> [database |-> dbOk, reached |-> reached,
                             issuanceDatabase |-> issuanceDbOk]]
              ELSE [op |-> "healthCheck", code |-> 503, success |-> FALSE,
                    data |-> [status |-> "unhealthy", database |-> "disconnected",
                              issuance_service |-> "unknown"],
                    met |-> [database |-> dbOk]]
    /\ UNCHANGED <<env, clock, credentials, verifications, uuidIssuance,
                   uuidVerification, ireq, vreq, getResp, nIssued, nVerified,
                   unit>>

----------------------------------------------------------------------------
(* Properties of POST /api/verifications *)

(* the argument VerificationController passes to VerificationModel.verifyCredential *)
Submitted(p) == verificationRequestSchema_value(vreq[p].body)

(* verifyCredential has built its VerificationResult *)
Built(p) ==
    \/ vreq[p].pc = "saving"
    \/ vreq[p].pc = "done" /\ vreq[p].resp.code # 400

Result(p) == vreq[p].verification

Statuses == {"valid", "invalid", "expired", "not_found", "signature_mismatch"}

SignedUnderSecret(c) == c.signature = SignWith(c, JWT_SECRET)

ComparedFields == {"id", "holder_name", "issuer", "issued_date",
                   "credential_type", "expiry_date", "signature"}

(* the lookup of handler p was answered with a record, or with a 404 *)
LookupFound(p) == vreq[p].calls = 1 /\ vreq[p].response.code = 200
LookupNotFound(p) == vreq[p].calls = 1 /\ vreq[p].response.code = 404
LookupFailed(p) == vreq[p].calls = 1 /\ vreq[p].response.code \notin {200, 404}

(* C1: verifyCredential assigns one of the five statuses, decided by the   *)
(* first step that fails, in this order: signature (signature_mismatch),  *)
(* lookup without a record (not_found), one of the seven compared fields  *)
(* differing from the looked-up record (invalid), expiry_date before the  *)
(* time of the check (expired); it is valid when no step fails.           *)
C1_StatusByFirstFailingStep ==
    \A p \in VerProcs :
        Built(p) =>
            /\ Result(p).verification_status \in Statuses
            /\ ~LookupFailed(p) =>
                 Result(p).verification_status =
                    IF ~SignedUnderSecret(Submitted(p)) THEN "signature_mismatch"
                    ELSE IF LookupNotFound(p) THEN "not_found"
                    ELSE IF \E f \in ComparedFields :
                               Submitted(p)[f] # vreq[p].response.data[f]
                    THEN "invalid"
                    ELSE IF Instant(Submitted(p).expiry_date) < vreq[p].today
                    THEN "expired"
                    ELSE "valid"

(* a tampered and re-signed credential whose record has expired is invalid: *)
(* the field comparison comes before the expiry test                        *)
C1_Witness ==
    \E p \in VerProcs :
        /\ Built(p)
        /\ LookupFound(p)
        /\ Result(p).verification_status = "invalid"
        /\ Instant(Submitted(p).expiry_date) < vreq[p].today

(* C2: a result is valid only for a credential whose seven compared fields *)
(* equal those of a row of the credentials table.                          *)
C2_ValidOnlyIfIssued ==
    \A p \in VerProcs :
        (Built(p) /\ Result(p).verification_status = "valid") =>
            \E row \in Rows(credentials) :
                \A f \in ComparedFields : Submitted(p)[f] = row[f]

C2_Witness ==
    \E p \in VerProcs :
        /\ vreq[p].pc = "done"
        /\ vreq[p].resp.code = 200
        /\ vreq[p].resp.data.verification_status = "valid"

(* C3: a call of verifyCredential that returns has added exactly one row to *)
(* the verifications table, the result it returns, whatever the status; no  *)
(* other step adds a row.                                                   *)
C3_OneRecordPerCall ==
    [][/\ \A p \in VerProcs :
            (vreq[p].pc # "done" /\ vreq'[p].pc = "done"
                /\ vreq'[p].resp.code = 200) =>
               /\ verifications' = Append(verifications, vreq'[p].resp.data)
               /\ \A i \in 1..Len(verifications) :
                     verifications[i].id # vreq'[p].resp.data.id
       /\ verifications' # verifications =>
            \E p \in VerProcs :
                vreq[p].pc = "saving" /\ vreq'[p].pc = "done"
                    /\ vreq'[p].resp.code = 200]_vars

(* a call whose lookup failed has returned, and its row is in the table *)
C3_Witness ==
    \E p \in VerProcs :
        /\ vreq[p].pc = "done"
        /\ vreq[p].resp.code = 200
        /\ LookupFailed(p)
        /\ \E i \in 1..Len(verifications) : verifications[i] = vreq[p].resp.data

(* the values a request may carry in field f, whatever the credential *)
RequestValues(f) ==
    CASE f = "id" -> (0..MaxIssueRequests) \cup {-1}
      [] f = "holder_name" -> HolderNames \cup {BadHolderName}
      [] f = "issuer" -> {Issuer, "Other Authority"}
      [] f \in {"issued_date", "expiry_date"} ->
            {Iso(t) : t \in Times} \cup {Alt(t) : t \in Times} \cup {BadDate}
      [] f = "credential_type" -> CredentialTypes \cup {BadCredentialType}
      [] f = "worker_id" -> {IssuanceWorkerId, "worker-9"}

(* b is a signed credential: the request schema accepts it, its dates are *)
(* written as the issuer writes them, and its signature is the digest of  *)
(* its own canonical fields                                               *)
Signed(b) ==
    /\ ~credentialSchema_error(b)
    /\ Form(b.issued_date) = "iso"
    /\ Form(b.expiry_date) = "iso"
    /\ SignedUnderSecret(b)

(* the signed credentials that become c when field f alone is rewritten *)
SignedOriginals(c, f) ==
    IF f = "signature"
    THEN {b \in {[c EXCEPT !.signature = SignWith(c, JWT_SECRET)]} :
             Signed(b) /\ b # c}
    ELSE {b \in {[c EXCEPT ![f] = v] : v \in RequestValues(f) \ {c[f]}} :
             Signed(b)}

(* C4 as claimed: a schema-accepted credential that differs from a signed  *)
(* credential in the signature, or in one canonical field, and keeps that  *)
(* credential's signature, verifies as signature_mismatch with             *)
(* is_valid = FALSE.                                                       *)
C4_AnyChangeIsSignatureMismatch ==
    \A p \in VerProcs :
        (Built(p) /\ \E f \in CanonicalFields \cup {"signature"} :
                        SignedOriginals(vreq[p].body.credential, f) # {}) =>
            /\ Result(p).verification_status = "signature_mismatch"
            /\ Result(p).is_valid = FALSE

(* the change of field f survives the schema: the request schema rewrites *)
(* issued_date and expiry_date to their toISOString form                  *)
SurvivesSchema(b, c, f) ==
    verificationRequestSchema_value([credential |-> b])[f]
        # verificationRequestSchema_value([credential |-> c])[f]

(* C4, amended: the same, for a change that is more than another ISO 8601 *)
(* spelling of the same issued_date or expiry_date.                       *)
C4_ChangeIsSignatureMismatch ==
    \A p \in VerProcs :
        (Built(p) /\ \E f \in CanonicalFields \cup {"signature"} :
                        \E b \in SignedOriginals(vreq[p].body.credential, f) :
                            SurvivesSchema(b, vreq[p].body.credential, f)) =>
            /\ Result(p).verification_status = "signature_mismatch"
            /\ Result(p).is_valid = FALSE

(* an issued credential with its worker_id rewritten has been verified: the *)
(* one canonical field the field comparison would not catch                *)
C4_Witness ==
    \E p \in VerProcs :
        /\ Built(p)
        /\ \E b \in SignedOriginals(vreq[p].body.credential, "worker_id") :
              /\ AsIssued(b) \in {AsIssued(r) : r \in Rows(credentials)}
              /\ SurvivesSchema(b, vreq[p].body.credential, "worker_id")
        /\ Result(p).verification_status = "signature_mismatch"

(* C5: verifyCredential calls the issuance service once when the signature *)
(* check passes and never otherwise; no call precedes the signature check. *)
C5_OneLookupAfterSignature ==
    \A p \in VerProcs :
        /\ vreq[p].calls \in {0, 1}
        /\ vreq[p].calls = 1 => SignedUnderSecret(Submitted(p))
        /\ Built(p) =>
              vreq[p].calls = IF SignedUnderSecret(Submitted(p)) THEN 1 ELSE 0

(* both cases have run to the end: the lookup of a signed credential has *)
(* failed and was not repeated, and a mis-signed credential was saved    *)
(* without a lookup                                                      *)
C5_Witness ==
    /\ \E p \in VerProcs :
          vreq[p].pc = "done" /\ LookupFailed(p) /\ vreq[p].calls = 1
    /\ \E i \in 1..Len(verifications) :
          verifications[i].verification_status = "signature_mismatch"

(* C6: a submitted credential equal to the stored row of its id, looked up *)
(* successfully, is expired (is_valid FALSE, is_expired TRUE) when its     *)
(* expiry_date is before the time of the check, and valid (is_valid TRUE,  *)
(* is_expired FALSE) otherwise.                                            *)
C6_AuthenticIsExpiredOrValid ==
    \A p \in VerProcs :
        (Built(p) /\ LookupFound(p) /\ Submitted(p) \in Rows(credentials)) =>
            IF Instant(Submitted(p).expiry_date) < vreq[p].today
            THEN /\ Result(p).verification_status = "expired"
                 /\ Result(p).is_valid = FALSE
                 /\ Result(p).is_expired = TRUE
            ELSE /\ Result(p).verification_status = "valid"
                 /\ Result(p).is_valid = TRUE
                 /\ Result(p).is_expired = FALSE

(* an authentic credential was checked at the very instant it expires *)
C6_Witness ==
    \E p \in VerProcs :
        /\ Built(p) /\ LookupFound(p) /\ Submitted(p) \in Rows(credentials)
        /\ Instant(Submitted(p).expiry_date) = vreq[p].today
        /\ Result(p).verification_status = "valid"

(* C7: a credential whose signature verifies and whose lookup is answered *)
(* 404 is not_found, with is_valid and is_expired FALSE.                  *)
C7_UnknownIdIsNotFound ==
    \A p \in VerProcs :
        (Built(p) /\ SignedUnderSecret(Submitted(p)) /\ LookupNotFound(p)) =>
            /\ Result(p).verification_status = "not_found"
            /\ Result(p).is_valid = FALSE
            /\ Result(p).is_expired = FALSE

C7_Witness ==
    \E p \in VerProcs :
        /\ vreq[p].pc = "done" /\ vreq[p].resp.code = 200
        /\ SignedUnderSecret(Submitted(p)) /\ LookupNotFound(p)
        /\ findById(Submitted(p).id) = {}

----------------------------------------------------------------------------
(* Properties of POST /api/credentials and GET /api/credentials/:id *)

StoredFor(table, holderName, credentialType) ==
    {i \in 1..Len(table) : /\ table[i].holder_name = holderName
                           /\ table[i].credential_type = credentialType}

(* handler p takes up a request in this step *)
Starts(p) == ireq[p].pc \in {"idle", "done"} /\ ireq'[p] # ireq[p]

(* C8 as claimed: a well-formed issuance request that starts when a        *)
(* credential for its (holder_name, credential_type) is stored, and whose  *)
(* SELECT succeeds, is answered 409 with the id of the first credential    *)
(* stored for the pair, stores nothing, and the table then holds one       *)
(* credential for the pair.                                                *)
C8_SecondIssuanceIsConflict ==
    [][\A p \in IssueProcs :
          (/\ Starts(p)
           /\ ireq'[p].resp.code \notin {400, 500}
           /\ StoredFor(credentials, ireq'[p].body.holder_name,
                        ireq'[p].body.credential_type) # {}) =>
             LET pair == StoredFor(credentials, ireq'[p].body.holder_name,
                                   ireq'[p].body.credential_type)
                 first == CHOOSE i \in pair : \A j \in pair : i <= j
             IN  /\ ireq'[p].pc = "done"
                 /\ ireq'[p].resp.code = 409
                 /\ ireq'[p].resp.data.existing_credential_id =
                       credentials[first].id
                 /\ credentials' = credentials
                 /\ Cardinality(pair) = 1]_vars

(* C9: nothing between the duplicate SELECT and the INSERT looks at the    *)
(* pair again: a handler that passed the SELECT stores its credential and  *)
(* answers 201 whenever its INSERT succeeds, whatever was stored since.    *)
(* So two requests for one pair that both pass the SELECT before either    *)
(* INSERT both answer 201 and leave two rows with different ids (the       *)
(* witness).                                                               *)
C9_InsertIgnoresThePair ==
    [][\A p \in IssueProcs :
          (ireq[p].pc = "inserting" /\ ireq'[p].pc = "done"
              /\ ireq'[p].resp.code # 500) =>
             /\ ireq'[p].resp.code = 201
             /\ Len(credentials') = Len(credentials) + 1
             /\ credentials'[Len(credentials')].id = ireq'[p].resp.data.id
             /\ \A i \in 1..Len(credentials) :
                   credentials[i].id # ireq'[p].resp.data.id]_vars

C9_Witness ==
    \E p, q \in IssueProcs :
        /\ p # q
        /\ ireq[p].pc = "done" /\ ireq[p].resp.code = 201
        /\ ireq[q].pc = "done" /\ ireq[q].resp.code = 201
        /\ ireq[p].resp.data.holder_name = ireq[q].resp.data.holder_name
        /\ ireq[p].resp.data.credential_type = ireq[q].resp.data.credential_type
        /\ ireq[p].resp.data.id # ireq[q].resp.data.id
        /\ \E i, j \in 1..Len(credentials) :
              /\ credentials[i].id = ireq[p].resp.data.id
              /\ credentials[j].id = ireq[q].resp.data.id

(* C10 as claimed: the record GET /api/credentials/{id} returns for a      *)
(* credential has the seven canonical fields and the signature of its 201  *)
(* response, and is_valid TRUE.                                            *)
C10_RetrievedAsIssued ==
    \A p \in IssueProcs :
        (/\ ireq[p].pc = "done" /\ ireq[p].resp.code = 201
         /\ getResp.code = 200
         /\ getResp.data.id = ireq[p].resp.data.id) =>
            /\ \A f \in CanonicalFields \cup {"signature"} :
                  getResp.data[f] = ireq[p].resp.data[f]
            /\ getResp.data.is_valid = TRUE

----------------------------------------------------------------------------
(* CryptoUtils called directly *)

(* the canonical field sets the functions are tried on *)
UnitFieldSets ==
    [id : {0, 1}, holder_name : HolderNames, issuer : {Issuer, "Other Authority"},
     issued_date : {Iso(0), Iso(1)}, credential_type : CredentialTypes,
     expiry_date : {Iso(1), Iso(MaxTime)},
     worker_id : {IssuanceWorkerId, "worker-9"}]

(* fields with the signature generateCredentialSignature gives for them *)
SignedCredential(fields) ==
    [id |-> fields.id, holder_name |-> fields.holder_name,
     issuer |-> fields.issuer, issued_date |-> fields.issued_date,
     credential_type |-> fields.credential_type,
     expiry_date |-> fields.expiry_date, worker_id |-> fields.worker_id,
     signature |-> generateCredentialSignature(fields),
     created_at |-> fields.issued_date, updated_at |-> fields.issued_date]

(* other values for field f of credential c *)
UnitOtherValues(c, f) ==
    CASE f = "id" -> {0, 1} \ {c.id}
      [] f = "holder_name" -> HolderNames \ {c.holder_name}
      [] f = "issuer" -> {Issuer, "Other Authority"} \ {c.issuer}
      [] f = "issued_date" ->
            {Alt(Instant(c.issued_date)), Iso(Instant(c.issued_date) + 1)}
      [] f = "credential_type" -> CredentialTypes \ {c.credential_type}
      [] f = "expiry_date" ->
            {Alt(Instant(c.expiry_date)), Iso(Instant(c.expiry_date) + 1)}
      [] f = "worker_id" -> {IssuanceWorkerId, "worker-9"} \ {c.worker_id}
      [] f = "signature" ->
            {InvalidSignature, SignWith(c, OtherSecret),
             generateCredentialSignature(
                [c EXCEPT !.holder_name =
                    CHOOSE h \in HolderNames : h # c.holder_name])}

(* a credential carrying the signature generated from its own fields; *)
(* changed names the fields rewritten since                           *)
InitCrypto ==
    /\ clock = 0
    /\ credentials = <<>>
    /\ verifications = <<>>
    /\ uuidIssuance = 1
    /\ uuidVerification = 1
    /\ ireq = [p \in IssueProcs |-> IdleIssue]
    /\ vreq = [p \in VerProcs |-> IdleVerify]
    /\ getResp = NoResp
    /\ nIssued = 0
    /\ nVerified = 0
    /\ readResp = NoRead
    /\ signed \in {[credential |-> SignedCredential(fields), changed |-> {}] :
                     fields \in UnitFieldSets}
    /\ verified = "none"
    /\ env = [issuance |-> IssuanceWorkerId, verification |-> VerificationWorkerId]

(* one field of the signed credential is rewritten *)
Tamper(f, v) ==
    /\ signed.changed = {}
    /\ v # signed.credential[f]
    /\ signed' = [credential |-> [signed.credential EXCEPT ![f] = v],
                  changed |-> {f}]
    /\ verified' = "none"
    /\ UNCHANGED <<env, clock, credentials, verifications, uuidIssuance,
                   uuidVerification, ireq, vreq, getResp, nIssued, nVerified,
                   readResp>>

(* CryptoUtils.verifyCredentialSignature(signed) *)
VerifySignature ==
    /\ verified = "none"
    /\ verified' = IF verifyCredentialSignature(signed.credential)
                   THEN "true" ELSE "false"
    /\ UNCHANGED <<env, clock, credentials, verifications, uuidIssuance,
                   uuidVerification, ireq, vreq, getResp, nIssued, nVerified,
                   readResp, signed>>

(* C18: verifyCredentialSignature answers TRUE for a credential carrying  *)
(* the signature generated from its seven canonical fields, and FALSE     *)
(* (an answer, not an exception) once any one canonical field or the      *)
(* signature has been changed.                                            *)
C18_VerifyAcceptsExactlyTheSigned ==
    verified # "none" =>
        /\ verified \in {"true", "false"}
        /\ verified = "true" <=> signed.changed = {}

C18_Witness ==
    /\ verified = "false"
    /\ signed.changed = {"issuer"}

----------------------------------------------------------------------------
(* Issuance followed by verification *)

(* handler p verifies, unchanged, the credential of a 201 response *)
VerifiesIssued(p) ==
    /\ Built(p)
    /\ \E q \in IssueProcs :
          /\ ireq[q].pc = "done" /\ ireq[q].resp.code = 201
          /\ vreq[p].body.credential = ireq[q].resp.data

(* the credential is not expired when handler p tests its expiry *)
Unexpired(p) == ~(Instant(Submitted(p).expiry_date) < vreq[p].today)

(* C11 as claimed: the credential of a 201 response, submitted unchanged   *)
(* while unexpired and with the issuance service answering, is verified    *)
(* valid, and never not_found.                                             *)
C11_IssuedVerifiesValid ==
    \A p \in VerProcs :
        (VerifiesIssued(p) /\ ~LookupFailed(p) /\ Unexpired(p)) =>
            Result(p).verification_status = "valid"

----------------------------------------------------------------------------
(* Response codes and failures of POST /api/verifications *)

Answered(p) == vreq[p].pc = "done"

(* the VerificationResult of handler p is a row of the table *)
Persisted(p) ==
    \E i \in 1..Len(verifications) : verifications[i] = Result(p)

(* the lookup of handler p got no answer within the client's timeout *)
LookupTimedOut(p) == vreq[p].calls = 1 /\ vreq[p].response.code = 0

C13_LookupFailureIsInvalid ==
    \A p \in VerProcs :
        (Built(p) /\ LookupFailed(p)) =>
            /\ Result(p).verification_status = "invalid"
            /\ Result(p).is_valid = FALSE
            /\ Result(p).is_expired = FALSE
            /\ (Answered(p) /\ vreq[p].resp.code = 200) => Persisted(p)

C13_Witness ==
    \E p \in VerProcs :
        /\ Answered(p) /\ vreq[p].resp.code = 200 /\ Persisted(p)
        /\ vreq[p].calls = 1 /\ vreq[p].response.code = 500

(* C14 as claimed: a request whose lookup timed out is answered with a    *)
(* 5xx and no verification status.                                        *)
C14_TimeoutIsServerError ==
    \A p \in VerProcs :
        (Answered(p) /\ LookupTimedOut(p)) =>
            /\ vreq[p].resp.code >= 500
            /\ "data" \notin DOMAIN vreq[p].resp

(* C14, amended: a request whose lookup timed out is answered 200 with    *)
(* status invalid, and with a 500 only when the service's own INSERT of   *)
(* that result failed.                                                    *)
C14_TimeoutIsInvalid ==
    \A p \in VerProcs :
        (Answered(p) /\ LookupTimedOut(p)) =>
            /\ "verification_status" \in DOMAIN Result(p)
            /\ Result(p).verification_status = "invalid"
            /\ \/ /\ vreq[p].resp.code = 200
                  /\ vreq[p].resp.data.verification_status = "invalid"
                  /\ vreq[p].resp.data.is_valid = FALSE
               \/ vreq[p].resp.code = 500 /\ ~Persisted(p)

C14_Witness ==
    \E p \in VerProcs :
        /\ Answered(p) /\ LookupTimedOut(p)
        /\ vreq[p].resp.code = 200
        /\ vreq[p].resp.data.verification_status = "invalid"
        /\ \E r \in Rows(credentials) : r.id = Submitted(p).id

----------------------------------------------------------------------------
(* The booleans of a VerificationResult, and rejected requests *)

(* the VerificationResults that are persisted or returned *)
ResultsOut ==
    {verifications[i] : i \in 1..Len(verifications)}
        \cup {Result(p) : p \in {q \in VerProcs : Built(q)}}
        \cup {vreq[p].resp.data :
                 p \in {q \in VerProcs : Answered(q) /\ vreq[q].resp.code = 200}}

(* C17: in every VerificationResult persisted or returned, is_valid is    *)
(* TRUE exactly for status valid, is_expired is TRUE exactly for status   *)
(* expired, and the two are never both TRUE.                              *)
C17_FlagsFollowStatus ==
    \A v \in ResultsOut :
        /\ v.is_valid = (v.verification_status = "valid")
        /\ v.is_expired = (v.verification_status = "expired")
        /\ ~(v.is_valid /\ v.is_expired)

C17_Witness ==
    /\ \E i \in 1..Len(verifications) :
          verifications[i].verification_status = "expired"
    /\ \E p \in VerProcs :
          /\ Answered(p) /\ vreq[p].resp.code = 200
          /\ vreq[p].resp.data.verification_status = "invalid"
          /\ LookupFound(p)
          /\ Instant(Submitted(p).expiry_date) < vreq[p].today

(* handler p of the verification service takes up a request in this step *)
StartsVerify(p) == vreq[p].pc \in {"idle", "done"} /\ vreq'[p] # vreq[p]

(* an issuance body with a bad holder_name, a bad credential_type or an *)
(* expiry_date that is past or no date                                  *)
RejectedIssueBody(body, now) ==
    \/ body.holder_name = BadHolderName
    \/ body.credential_type = BadCredentialType
    \/ body.expiry_date = BadDate
    \/ body.expiry_date # Absent /\ Instant(body.expiry_date) < now

(* a verification body without a credential, or with a malformed one *)
RejectedVerifyBody(body) ==
    \/ "credential" \notin DOMAIN body
    \/ LET c == body.credential
       IN  \/ c.id < 0
           \/ c.holder_name = BadHolderName
           \/ c.credential_type = BadCredentialType
           \/ \E f \in {"issued_date", "expiry_date", "created_at", "updated_at"} :
                 Form(c[f]) \in {"bad", "num"}

(* C19: a request is answered 400 exactly when validation rejects it, and *)
(* the step that answers 400 stores no credential, persists no            *)
(* VerificationResult, calls the issuance service not once, and leaves    *)
(* the handler with nothing more to do.                                   *)
C19_RejectedChangesNothing ==
    [][/\ \A p \in IssueProcs :
             Starts(p) =>
                /\ RejectedIssueBody(ireq'[p].body, clock)
                      <=> ireq'[p].resp.code = 400
                /\ ireq'[p].resp.code = 400 =>
                      /\ ireq'[p].pc = "done"
                      /\ credentials' = credentials
                      /\ verifications' = verifications
       /\ \A p \in VerProcs :
             StartsVerify(p) =>
                /\ RejectedVerifyBody(vreq'[p].body)
                      <=> vreq'[p].resp.code = 400
                /\ vreq'[p].resp.code = 400 =>
                      /\ vreq'[p].pc = "done"
                      /\ vreq'[p].calls = 0
                      /\ credentials' = credentials
                      /\ verifications' = verifications]_vars

C19_Witness ==
    /\ \E p \in IssueProcs :
          /\ ireq[p].pc = "done" /\ ireq[p].resp.code = 400
          /\ ireq[p].body.expiry_date = Iso(0)
    /\ \E p \in VerProcs :
          /\ Answered(p) /\ vreq[p].resp.code = 400
          /\ "credential" \in DOMAIN vreq[p].body

----------------------------------------------------------------------------
(* The two stores *)

SignedFields == CanonicalFields \cup {"signature"}

VerificationReads == {"getVerification", "getVerificationsByCredentialId",
                      "getAllVerifications", "healthCheck"}

(* this step is one of a verification-service request *)
VerificationServiceStep ==
    \/ vreq' # vreq
    \/ verifications' # verifications
    \/ readResp' # readResp /\ readResp'.op \in VerificationReads

(* C15: a stored credential stays stored, with the same id, holder_name,  *)
(* issuer, issued_date, credential_type, expiry_date, worker_id and       *)
(* signature, over every step of issuance, retrieval, listing and         *)
(* verification.                                                          *)
C15_StoredCredentialsAreKept ==
    [][\A i \in 1..Len(credentials) :
          \E j \in 1..Len(credentials') :
             \A f \in SignedFields : credentials'[j][f] = credentials[i][f]]_vars

C15_Witness ==
    /\ Len(credentials) = MaxStoreIssues
    /\ LookupFound(1)
    /\ readResp.op = "getAllCredentials" /\ readResp.code = 200
    /\ vreq[1].pc = "done" /\ vreq[1].resp.code = 200

(* C16: no step of a verification-service request (verify, get by id, by  *)
(* credential id, list, health) changes the credentials table.            *)
C16_VerificationKeepsCredentials ==
    [][VerificationServiceStep => credentials' = credentials]_vars

C16_Witness ==
    /\ credentials # <<>>
    /\ vreq[1].pc = "done" /\ vreq[1].resp.code = 200
    /\ LookupFound(1)
    /\ readResp.op = "getVerification" /\ readResp.code = 200

----------------------------------------------------------------------------
(* GET /health of the verification service *)

(* C20: when the service's own database answers, the answer is 200 with   *)
(* success TRUE and issuance_service is reachable exactly when the        *)
(* issuance health call succeeded; the answer is 503 exactly when the own *)
(* database query failed.                                                 *)
C20_HealthFollowsOwnDatabase ==
    readResp.op = "healthCheck" =>
        /\ readResp.met.database =>
              /\ readResp.code = 200
              /\ readResp.success = TRUE
              /\ readResp.data.issuance_service =
                    IF readResp.met.reached /\ readResp.met.issuanceDatabase
                    THEN "reachable" ELSE "unreachable"
        /\ readResp.code = 503 <=> ~readResp.met.database
        /\ readResp.code = 503 => readResp.success = FALSE

C20_Witness ==
    /\ readResp.op = "healthCheck"
    /\ readResp.code = 200
    /\ readResp.data.issuance_service = "unreachable"
    /\ ~readResp.met.reached
    /\ credentials # <<>>

----------------------------------------------------------------------------
(* The optional fields of a VerificationResult *)

(* the spread ...(issuerWorkerId && {...}) leaves the key out; the model *)
(* keeps "" and Absent in its place                                      *)
CarriesIssuerWorkerId(v) == v.issuer_worker_id # ""
CarriesIssuedDate(v) == v.issued_date # Absent

(* C21: a VerificationResult carries issuer_worker_id and issued_date     *)
(* exactly when its status is valid or expired, and they are then the     *)
(* worker_id and issued_date of the record the lookup returned; with any  *)
(* other status both are absent.                                          *)
C21_IssuerFieldsFollowStatus ==
    /\ \A v \in ResultsOut :
          /\ CarriesIssuerWorkerId(v) = (v.verification_status \in {"valid", "expired"})
          /\ CarriesIssuedDate(v) = (v.verification_status \in {"valid", "expired"})
    /\ \A p \in VerProcs :
          (Built(p) /\ Result(p).verification_status \in {"valid", "expired"}) =>
             /\ LookupFound(p)
             /\ Result(p).issuer_worker_id = vreq[p].response.data.worker_id
             /\ Result(p).issued_date = vreq[p].response.data.issued_date

(* one call ended expired with the record's fields, and a found credential *)
(* whose fields differ was answered invalid                                *)
C21_Witness ==
    /\ \E i \in 1..Len(verifications) :
          /\ verifications[i].verification_status = "expired"
          /\ verifications[i].issuer_worker_id = IssuanceWorkerId
    /\ \E p \in VerProcs :
          /\ Built(p) /\ LookupFound(p)
          /\ Result(p).verification_status = "invalid"

----------------------------------------------------------------------------
(* The verifications table over time *)

(* the credential ids a verification request can name *)
CredentialIds == (0..MaxVerifiedIssues) \cup UnknownUuids

(* handler p completes a call of verifyCredential in this step *)
Completes(p) ==
    /\ vreq[p].pc = "saving"
    /\ vreq'[p].pc = "done"
    /\ vreq'[p].resp.code = 200

(* how many records the lookup by credential id returns *)
FoundFor(table, credentialId) ==
    Cardinality({i \in 1..Len(table) : table[i].credential_id = credentialId})

(* C22: the verifications table only grows.  A completed call for         *)
(* credential id c, stored or not, adds one record to what the lookup by  *)
(* credential id c returns, and no other step changes what that lookup    *)
(* returns for any id; the records have pairwise distinct ids; a record   *)
(* the lookup by verification id returns is returned unchanged ever after.*)
C22_VerificationsAppendOnly ==
    [][/\ \A c \in CredentialIds :
            LET completed ==
                   {p \in VerProcs :
                       Completes(p) /\ vreq'[p].resp.data.credential_id = c}
            IN  /\ FoundFor(verifications', c) =
                      FoundFor(verifications, c) + Cardinality(completed)
                /\ \A found \in VerificationModel_findByCredentialId(c)' :
                      /\ Len(found) = FoundFor(verifications', c)
                      /\ \A i, j \in 1..Len(found) :
                            i # j => found[i].id # found[j].id
       /\ \A id \in 1..MaxVerifyRequests :
            VerificationModel_findById(id) # {} =>
               VerificationModel_findById(id)' = VerificationModel_findById(id)]_vars

(* two completed calls for an id no credential has: the lookup returns *)
(* both records                                                        *)
C22_Witness ==
    /\ Len(verifications) = 2
    /\ \A i \in 1..2 : verifications[i].credential_id \in UnknownUuids
    /\ \E found \in VerificationModel_findByCredentialId(0) :
          Len(found) = 2 /\ found[1].id # found[2].id

----------------------------------------------------------------------------
(* Interleaved verification requests *)

(* the status verifyCredential gives credential c when nothing runs between *)
(* its steps: the lookup answers from the table as it is, at time today     *)
RunAlone(c, table, today) ==
    IF ~verifyCredentialSignature(c) THEN "signature_mismatch"
    ELSE IF \A row \in Rows(table) : row.id # c.id THEN "not_found"
    ELSE LET issuedCredential == CHOOSE row \in Rows(table) : row.id = c.id
         IN  IF ~compareCredentials(c, issuedCredential) THEN "invalid"
             ELSE IF Instant(c.expiry_date) < today THEN "expired"
             ELSE "valid"

(* C23: with handlers interleaving in any order, each call gets the status *)
(* it would get alone against the credentials table and the clock of its   *)
(* lookup (invalid when the lookup fails), a step of one handler leaves    *)
(* the other handlers' requests alone, a call that completes appends its   *)
(* own VerificationResult and returns it, and the records already in the   *)
(* table stay as they are.                                                 *)
C23_InterleavedAsAlone ==
    [][/\ \A p \in VerProcs :
            /\ (vreq[p].pc = "lookup" /\ vreq'[p].pc = "saving") =>
                  vreq'[p].verification.verification_status =
                     IF vreq'[p].response.code \notin {200, 404} THEN "invalid"
                     ELSE RunAlone(Submitted(p), credentials, clock)
            /\ (vreq[p].pc \in {"idle", "done"} /\ vreq'[p].pc = "saving") =>
                  /\ vreq'[p].verification.verification_status = "signature_mismatch"
                  /\ RunAlone(verificationRequestSchema_value(vreq'[p].body),
                              credentials, clock) = "signature_mismatch"
            /\ Completes(p) =>
                  /\ verifications' = Append(verifications, Result(p))
                  /\ vreq'[p].resp.data = Result(p)
            /\ vreq'[p] # vreq[p] =>
                  \A q \in VerProcs \ {p} : vreq'[q] = vreq[q]
       /\ Len(verifications') >= Len(verifications)
       /\ \A i \in 1..Len(verifications) : verifications'[i] = verifications[i]]_vars

(* two calls for the same stored credential ran at once: the one that built *)
(* its result first saved it last, and both records are in the table        *)
C23_Witness ==
    /\ Len(verifications) = 2
    /\ verifications[1].id > verifications[2].id
    /\ verifications[1].credential_id = verifications[2].credential_id
    /\ verifications[1].credential_id \in 1..Len(credentials)
    /\ \A p \in VerProcs :
          /\ Answered(p) /\ vreq[p].resp.code = 200
          /\ Persisted(p)

----------------------------------------------------------------------------
(* Store failures of POST /api/credentials *)

(* C24: when the SELECT of the duplicate check or the INSERT fails, the    *)
(* request is answered 500 'Failed to issue credential' after that one     *)
(* statement (one SELECT, or one SELECT and one INSERT: nothing is tried   *)
(* again), the step leaves the credentials table as it was, and the table  *)
(* holds no credential of that request.                                    *)
C24_StoreFailureIs500 ==
    [][\A p \in IssueProcs :
          /\ ireq'[p].storeFailed =>
                /\ ireq'[p].pc = "done"
                /\ ireq'[p].resp = FailedToIssue
                /\ ireq'[p].statements =
                      IF ireq'[p].credential = NoBody THEN 1 ELSE 2
                /\ ireq'[p].credential # NoBody =>
                      \A row \in Rows(credentials') :
                         row.id # ireq'[p].credential.id
          /\ (~ireq[p].storeFailed /\ ireq'[p].storeFailed) =>
                credentials' = credentials]_vars

(* one request failed at its SELECT and another at its INSERT, beside a *)
(* stored credential                                                    *)
C24_Witness ==
    /\ Len(credentials) = 1
    /\ \E p, q \in IssueProcs :
          /\ ireq[p].storeFailed /\ ireq[p].statements = 1
          /\ ireq[q].storeFailed /\ ireq[q].statements = 2
          /\ ireq[q].resp = FailedToIssue

----------------------------------------------------------------------------
(* The expiry_date of an issued credential *)

(* handler p has built its credential *)
Created(p) == ireq[p].credential # NoBody

(* C25 as claimed: without an expiry_date in the request, the credential's *)
(* expiry_date is its issued_date plus 365 days exactly; with one, it is   *)
(* the instant the request gave.                                           *)
C25_DefaultExpiryIsOneYear ==
    \A p \in IssueProcs :
        Created(p) =>
            Instant(ireq[p].credential.expiry_date) =
                IF ireq[p].body.expiry_date = Absent
                THEN Instant(ireq[p].credential.issued_date) + DefaultValidity
                ELSE Instant(ireq[p].body.expiry_date)

----------------------------------------------------------------------------
(* Fields outside the signature and the comparison *)

(* the submitted credential of handler p is signed under JWT_SECRET, its *)
(* record was found, and it differs from the record in created_at or    *)
(* updated_at                                                           *)
MetadataAltered(p) ==
    /\ Built(p)
    /\ LookupFound(p)
    /\ SignedUnderSecret(Submitted(p))
    /\ \E f \in {"created_at", "updated_at"} :
          Submitted(p)[f] # vreq[p].response.data[f]

----------------------------------------------------------------------------
(* Worker identifiers *)

(* C27 as claimed: a 201 names one worker: the worker_id of the envelope, *)
(* the worker of the message, and the worker_id of the credential, as     *)
(* returned, signed and stored, are the same; the envelope of a           *)
(* verification answer names the worker of the result's verified_by.      *)
C27_OneWorkerPerAnswer ==
    /\ \A p \in IssueProcs :
          (ireq[p].pc = "done" /\ ireq[p].resp.code = 201) =>
             LET credential == ireq[p].resp.data
             IN  /\ ireq[p].resp.worker_id = credential.worker_id
                 /\ ireq[p].resp.message =
                       <<"Credential issued by", credential.worker_id>>
                 /\ SignedUnderSecret(credential)
                 /\ \A row \in findById(credential.id) :
                       row.worker_id = credential.worker_id
    /\ \A p \in VerProcs :
          (Answered(p) /\ vreq[p].resp.code = 200) =>
             vreq[p].resp.worker_id = vreq[p].resp.data.verified_by

----------------------------------------------------------------------------
(* Expiry over time *)

(* handler p finds its credential valid in this step *)
FindsValid(p) ==
    /\ vreq[p].pc = "lookup"
    /\ vreq'[p].pc = "saving"
    /\ vreq'[p].verification.verification_status = "valid"

(* C28: once a verification of a credential has given expired, no later   *)
(* verification of the same credential gives valid: when a call finds its *)
(* credential valid, no VerificationResult built, returned or stored      *)
(* before for that credential id is expired.                              *)
C28_ExpiredStaysExpired ==
    [][\A p \in VerProcs :
          FindsValid(p) =>
             \A v \in ResultsOut :
                v.credential_id = vreq'[p].verification.credential_id =>
                   v.verification_status # "expired"]_vars

(* the same credential was verified twice after its expiry, with a stored *)
(* expired result before the second call started                          *)
C28_Witness ==
    /\ Len(verifications) = 2
    /\ verifications[1].credential_id = verifications[2].credential_id
    /\ verifications[1].verification_status = "expired"
    /\ verifications[2].verification_status = "expired"
    /\ Instant(verifications[1].verified_at) < Instant(verifications[2].verified_at)

(* C29 as claimed: a result that is expired has a credential whose       *)
(* expiry_date is earlier than the result's verified_at, and a result     *)
(* that is valid has one whose expiry_date is not earlier than            *)
(* verified_at.                                                           *)
C29_StatusAgreesWithVerifiedAt ==
    \A p \in VerProcs :
        Built(p) =>
            /\ Result(p).verification_status = "expired" =>
                  Instant(Submitted(p).expiry_date) < Instant(Result(p).verified_at)
            /\ Result(p).verification_status = "valid" =>
                  ~(Instant(Submitted(p).expiry_date) < Instant(Result(p).verified_at))

----------------------------------------------------------------------------
(* worker_id and the signature *)

(* C30: a result that is valid or expired is for a submitted credential *)
(* whose worker_id is the worker_id of the record the lookup returned,  *)
(* though compareCredentials does not compare worker_id: the submitted  *)
(* signature covers the submitted worker_id and equals the record's.    *)
C30_WorkerIdIsTheIssuers ==
    \A p \in VerProcs :
        (Built(p) /\ Result(p).verification_status \in {"valid", "expired"}) =>
            /\ LookupFound(p)
            /\ Submitted(p).worker_id = vreq[p].response.data.worker_id
            /\ Submitted(p).signature = vreq[p].response.data.signature
            /\ verifyCredentialSignature(Submitted(p))

(* after a valid result, the same credential with another worker_id,    *)
(* signed again under JWT_SECRET, is found and differs from its record  *)
(* in the signature only among the compared fields: invalid             *)
C30_Witness ==
    /\ \E i \in 1..Len(verifications) :
          verifications[i].verification_status = "valid"
    /\ \E p \in VerProcs :
          /\ Built(p) /\ LookupFound(p)
          /\ SignedUnderSecret(Submitted(p))
          /\ Submitted(p).worker_id # vreq[p].response.data.worker_id
          /\ \A f \in ComparedFields \ {"signature"} :
                Submitted(p)[f] = vreq[p].response.data[f]
          /\ Result(p).verification_status = "invalid"

----------------------------------------------------------------------------
(* Specifications *)

(* both services, every handler, every request *)
Next ==
    \/ Tick
    \/ /\ nIssued < MaxIssueRequests
       /\ \E p \in IssueProcs, body \in IssueBodies, dbOk \in BOOLEAN :
             IssueCredential(p, body, dbOk)
    \/ \E p \in IssueProcs, dbOk \in BOOLEAN : IssueInsert(p, dbOk)
    \/ \E id \in 0..MaxIssueRequests, dbOk \in BOOLEAN : GetCredential(id, dbOk)
    \/ /\ nVerified < MaxVerifyRequests
       /\ \E p \in VerProcs, body \in VerifyBodies : VerifyCredential(p, body)
    \/ \E p \in VerProcs, reached \in BOOLEAN, dbOk \in BOOLEAN :
          VerifyLookup(p, reached, dbOk)
    \/ \E p \in VerProcs, dbOk \in BOOLEAN : VerifySave(p, dbOk)

Spec == Init /\ [][Next]_vars

(* the issuance service alone: concurrent handlers, every request body, *)
(* a database that may fail                                             *)
NextIssuance ==
    \/ Tick
    \/ /\ nIssued < MaxIssueRequests
       /\ \E p \in IssueProcs, body \in IssueBodies, dbOk \in BOOLEAN :
             IssueCredential(p, body, dbOk)
    \/ \E p \in IssueProcs, dbOk \in BOOLEAN : IssueInsert(p, dbOk)
    \/ \E id \in 0..MaxIssueRequests, dbOk \in BOOLEAN : GetCredential(id, dbOk)

SpecIssuance == Init /\ [][NextIssuance]_vars

(* the verification service, one handler, with every body a client can *)
(* build, over the credential one issuance request stores              *)
VerificationIssueBodies == {b \in IssueBodies : b.holder_name # "Bob"}

NextVerification ==
    \/ Tick
    \/ /\ nIssued < MaxVerifiedIssues
       /\ \E body \in VerificationIssueBodies : IssueCredential(1, body, TRUE)
    \/ IssueInsert(1, TRUE)
    \/ /\ nVerified < MaxVerifyRequests
       /\ \E body \in VerifyBodies : VerifyCredential(1, body)
    \/ \E reached \in BOOLEAN, dbOk \in BOOLEAN : VerifyLookup(1, reached, dbOk)
    \/ \E dbOk \in BOOLEAN : VerifySave(1, dbOk)

SpecVerification == Init /\ [][NextVerification]_vars

(* Both services with their endpoints, over few requests; GET          *)
(* /api/credentials/:id is called by the lookup of the verification    *)
(* service                                                             *)
StoreIssueBodies ==
    {b \in IssueBodies : b.holder_name # "Bob" /\ b.expiry_date # Iso(0)}

StoreVerifyBodies ==
    {[credential |-> c] : c \in BaseCredentials} \cup {[holder_name |-> "Alice"]}

NextStores ==
    \/ /\ nIssued < MaxStoreIssues
       /\ \E p \in IssueProcs, body \in StoreIssueBodies :
             IssueCredential(p, body, TRUE)
    \/ \E p \in IssueProcs : IssueInsert(p, TRUE)
    \/ \E page \in Pages, limit \in Limits, dbOk \in BOOLEAN :
          ListCredentials(page, limit, dbOk)
    \/ /\ nVerified < MaxStoreVerifies
       /\ \E body \in StoreVerifyBodies : VerifyCredential(1, body)
    \/ \E reached, dbOk \in BOOLEAN : VerifyLookup(1, reached, dbOk)
    \/ \E dbOk \in BOOLEAN : VerifySave(1, dbOk)
    \/ \E id \in 0..MaxStoreVerifies, dbOk \in BOOLEAN : GetVerification(id, dbOk)
    \/ \E credentialId \in 0..MaxStoreIssues, dbOk \in BOOLEAN :
          GetVerificationsByCredentialId(credentialId, dbOk)
    \/ \E page \in Pages, limit \in Limits, dbOk \in BOOLEAN :
          GetAllVerifications(page, limit, dbOk)
    \/ \E dbOk, reached, issuanceDbOk \in BOOLEAN :
          HealthCheck(dbOk, reached, issuanceDbOk)

SpecStores == Init /\ [][NextStores]_vars

(* the verification service with its handlers interleaving, over the *)
(* credential one issuance request stores                            *)
InterleavedVerifyBodies ==
    StoreVerifyBodies
        \cup {[credential |-> [c EXCEPT !.signature = InvalidSignature]] :
                 c \in {AsIssued(r) : r \in Rows(credentials)}}

NextInterleaved ==
    \/ Tick
    \/ /\ nIssued < MaxVerifiedIssues
       /\ \E body \in StoreIssueBodies : IssueCredential(1, body, TRUE)
    \/ IssueInsert(1, TRUE)
    \/ /\ nVerified < MaxInterleavedVerifies
       /\ \E p \in VerProcs, body \in InterleavedVerifyBodies :
             VerifyCredential(p, body)
    \/ \E p \in VerProcs, reached \in BOOLEAN, dbOk \in BOOLEAN :
          VerifyLookup(p, reached, dbOk)
    \/ \E p \in VerProcs, dbOk \in BOOLEAN : VerifySave(p, dbOk)

SpecInterleaved == Init /\ [][NextInterleaved]_vars

(* both services started with or without WORKER_ID in their environment, *)
(* one request handler each                                              *)
InitWorkers ==
    /\ clock = 0
    /\ credentials = <<>>
    /\ verifications = <<>>
    /\ uuidIssuance = 1
    /\ uuidVerification = 1
    /\ ireq = [p \in IssueProcs |-> IdleIssue]
    /\ vreq = [p \in VerProcs |-> IdleVerify]
    /\ getResp = NoResp
    /\ nIssued = 0
    /\ nVerified = 0
    /\ readResp = NoRead
    /\ signed = NoBody
    /\ verified = "none"
    /\ env \in [issuance : {IssuanceWorkerId, Unset},
                verification : {VerificationWorkerId, Unset}]

NextWorkers ==
    \/ /\ nIssued < MaxVerifiedIssues
       /\ \E body \in StoreIssueBodies : IssueCredential(1, body, TRUE)
    \/ IssueInsert(1, TRUE)
    \/ /\ nVerified < MaxVerifyRequests
       /\ \E body \in StoreVerifyBodies : VerifyCredential(1, body)
    \/ \E reached \in BOOLEAN : VerifyLookup(1, reached, TRUE)
    \/ VerifySave(1, TRUE)

SpecWorkers == InitWorkers /\ [][NextWorkers]_vars

(* CryptoUtils alone *)
NextCrypto ==
    \/ \E f \in SignedFields :
          \E v \in UnitOtherValues(signed.credential, f) : Tamper(f, v)
    \/ VerifySignature

SpecCrypto == InitCrypto /\ [][NextCrypto]_vars

====
